---- MODULE Spec2Model ----
(***************************************************************************)
(* Model of the DeepLabCut pytorch scoring module (apis/scoring.py) and of *)
(* the heatmap predictor (models/predictors/single_predictor.py).          *)
(*                                                                         *)
(* Numbers.  Coordinates are integers (pixels).  Confidences, visibility   *)
(* flags, cutoffs and evaluator scores are fixed point with one decimal:   *)
(* the integer 10 stands for 1.0, 3 for 0.3, 1000 for 100.0.  NaN is the   *)
(* floating point not-a-number; every arithmetic operator below propagates *)
(* it and every comparison with it is false, as in IEEE 754.  A mean is    *)
(* kept exact as the pair [sum, n] (sum of the terms, number of terms);    *)
(* n = 0 is the mean of nothing, which numpy reports as nan.               *)
(*                                                                         *)
(* Containers.  A Python dict is the sequence of its <<key, value>> pairs  *)
(* in insertion order.  An ndarray is the nested sequence of its axes, so  *)
(* that concatenating the nesting is the C-order buffer numpy reshapes.    *)
(* An optional argument is the empty set (None) or a singleton.            *)
(***************************************************************************)
EXTENDS Integers, Sequences, FiniteSets, TLC

VARIABLES
    poses,                  \* get_scores/compute_oks argument: predictions
    ground_truth,           \* get_scores/compute_oks argument: ground truth
    unique_bodypart_poses,  \* get_scores optional argument
    unique_bodypart_gt,     \* get_scores optional argument
    pcutoff,                \* the caller's cutoff
    result,                 \* what the last get_scores call returned or raised
    evaluated,              \* the calls compute_oks made to evaluate_assembly
    rmse_pred,              \* compute_rmse argument pred, rows (x, y, score)
    rmse_gt,                \* compute_rmse argument ground_truth, rows (x, y)
    rmse_result,            \* what compute_rmse returned or raised
    heatmap,                \* predictor argument, shape (batch, height, width, joints)
    locref,                 \* predictor optional argument, shape (batch, height, width, joints, 2)
    scale_factors,          \* predictor argument (stride of y, stride of x)
    num_outputs,            \* predictor argument: the k of top-k
    top,                    \* what get_top_values returned or raised
    pose,                   \* what get_pose_prediction returned or raised
    buffers,                \* the numpy buffers, in the order they were allocated
    dicts,                  \* the Python dicts, in the order they were created
    ret                     \* what the last call on buffers and dicts returned or raised

scoring_vars == <<poses, ground_truth, unique_bodypart_poses, unique_bodypart_gt,
                  result, evaluated>>

rmse_vars == <<rmse_pred, rmse_gt, rmse_result>>

predictor_vars == <<heatmap, locref, scale_factors, num_outputs, top, pose>>

array_vars == <<buffers, dicts, ret>>

vars == <<scoring_vars, pcutoff, rmse_vars, predictor_vars, array_vars>>

(***************************************************************************)
(* Bounds of the model.                                                    *)
(***************************************************************************)
MaxImages == 2
MaxIndividuals == 2
MaxJoints == 2
MaxKpts == 4
MaxRows == 3
MaxCells == 4
MaxTop == 2
MaxCalls == 2

(***************************************************************************)
(* Floating point values.                                                  *)
(***************************************************************************)
NaN == -1000

IsNaN(v) == v = NaN

Sub(a, b) == IF IsNaN(a) \/ IsNaN(b) THEN NaN ELSE a - b

Add(a, b) == IF IsNaN(a) \/ IsNaN(b) THEN NaN ELSE a + b

Square(a) == IF IsNaN(a) THEN NaN ELSE a * a

\* np.sqrt on the squared distances the model produces (all perfect squares)
Sqrt(a) ==
    IF IsNaN(a) THEN NaN
    ELSE CHOOSE r \in 0..a : r * r <= a /\ (r + 1) * (r + 1) > a

\* a >= b and a < b on floats: false when either side is NaN
Ge(a, b) == ~IsNaN(a) /\ ~IsNaN(b) /\ a >= b

Lt(a, b) == ~IsNaN(a) /\ ~IsNaN(b) /\ a < b

RECURSIVE SumSeq(_)
SumSeq(s) == IF s = <<>> THEN 0 ELSE Head(s) + SumSeq(Tail(s))

\* (a slip: NaN entries counted as zero)
NanMean_NaNAsZero(s) ==
    [sum |-> SumSeq(SelectSeq(s, LAMBDA v : ~IsNaN(v))), n |-> Len(s)]

\* np.nanmean: the mean of the entries that are not NaN
NanMean(s) ==
    LET kept == SelectSeq(s, LAMBDA v : ~IsNaN(v))
    IN  [sum |-> SumSeq(kept), n |-> Len(kept)]

MeanIsNaN(m) == m.n = 0

MeanIsZero(m) == m.n > 0 /\ m.sum = 0

(***************************************************************************)
(* dicts and arrays.                                                       *)
(***************************************************************************)
\* list(d): the keys in iteration order
DictKeys(d) == [n \in 1..Len(d) |-> d[n][1]]

HasKey(d, k) == \E n \in 1..Len(d) : d[n][1] = k

\* d[k]
DictGet(d, k) == d[CHOOSE n \in 1..Len(d) : d[n][1] = k][2]

RECURSIVE Concat(_)
Concat(ss) == IF ss = <<>> THEN <<>> ELSE Head(ss) \o Concat(Tail(ss))

\* the C-order buffer of an array of shape (images, individuals, joints, cols)
Flatten(a) ==
    Concat([n \in 1..Len(a) |->
        Concat([i \in 1..Len(a[n]) |-> Concat(a[n][i])])])

\* a[..., :c]
TakeCols(a, c) ==
    [n \in 1..Len(a) |-> [i \in 1..Len(a[n]) |-> [j \in 1..Len(a[n][i]) |->
        SubSeq(a[n][i][j], 1, IF Len(a[n][i][j]) < c THEN Len(a[n][i][j]) ELSE c)]]]

\* a.reshape((-1, c)) of an array with buffer flat
Reshape(flat, c) ==
    IF Len(flat) % c # 0 THEN [err |-> "ValueError", rows |-> <<>>]
    ELSE [err |-> "",
          rows |-> [r \in 1..(Len(flat) \div c) |->
                       [q \in 1..c |-> flat[(r - 1) * c + q]]]]

(***************************************************************************)
(* build_keypoint_array                                                    *)
(***************************************************************************)
\* keypoints[image_key] for each key in order, then np.stack: a missing key
\* raises KeyError in the loop; np.stack of no arrays raises ValueError.
\* (The arrays of one dict share a shape, so np.stack has no other failure.)
\* (a slip: the n-th array of the dict, whatever its key)
build_keypoint_array_ByPosition(keypoints, keys) ==
    IF Len(keys) = 0 THEN [err |-> "ValueError", arr |-> <<>>]
    ELSE [err |-> "",
          arr |-> [n \in 1..Len(keys) |->
                      keypoints[IF n <= Len(keypoints) THEN n ELSE 1][2]]]

build_keypoint_array(keypoints, keys) ==
    IF \E n \in 1..Len(keys) : ~HasKey(keypoints, keys[n])
    THEN [err |-> "KeyError", arr |-> <<>>]
    ELSE IF Len(keys) = 0
    THEN [err |-> "ValueError", arr |-> <<>>]
    ELSE [err |-> "",
          arr |-> [n \in 1..Len(keys) |-> DictGet(keypoints, keys[n])]]

(***************************************************************************)
(* compute_rmse                                                            *)
(***************************************************************************)
\* (a slip: only a longer prediction array is refused)
SameLength_AtMost(pred, gt) == Len(pred) <= Len(gt)

\* pred.shape[0] != ground_truth.shape[0] raises
SameLength(pred, gt) == Len(pred) = Len(gt)

\* (a slip: a strict comparison)
CutoffMask_Strict(pred, pc) ==
    [n \in 1..Len(pred) |-> ~IsNaN(pred[n][3]) /\ pred[n][3] > pc]

\* mask = pred[:, 2] >= pcutoff
CutoffMask(pred, pc) == [n \in 1..Len(pred) |-> Ge(pred[n][3], pc)]

\* a[mask] for a boolean mask
RECURSIVE SelectByMask(_, _)
SelectByMask(a, mask) ==
    IF a = <<>> THEN <<>>
    ELSE (IF Head(mask) THEN <<Head(a)>> ELSE <<>>)
         \o SelectByMask(Tail(a), Tail(mask))

\* np.sum((pred[:, :2] - ground_truth) ** 2, axis=1)
SquareErrors(pred, gt) ==
    [n \in 1..Len(pred) |->
        Add(Square(Sub(pred[n][1], gt[n][1])),
            Square(Sub(pred[n][2], gt[n][2])))]

SqrtAll(a) == [n \in 1..Len(a) |-> Sqrt(a[n])]

compute_rmse(pred, gt, pc) ==
    IF ~SameLength(pred, gt)
    THEN [err |-> "ValueError", rmse |-> [sum |-> 0, n |-> 0],
          rmse_p |-> [sum |-> 0, n |-> 0]]
    ELSE LET mask == CutoffMask(pred, pc)
             mean_square_errors == SquareErrors(pred, gt)
         IN  [err |-> "",
              rmse |-> NanMean(SqrtAll(mean_square_errors)),
              rmse_p |-> NanMean(SqrtAll(SelectByMask(mean_square_errors, mask)))]

(***************************************************************************)
(* Assembly and evaluate_assembly (inferenceutils, outside this excerpt)   *)
(***************************************************************************)
\* Assembly.from_array: the joints whose coordinates are finite, as the set of
\* <<joint, x, y>>
AssemblyFromArray(idv_bodyparts) ==
    {<<j, idv_bodyparts[j][1], idv_bodyparts[j][2]>> :
        j \in {k \in 1..Len(idv_bodyparts) :
                  ~IsNaN(idv_bodyparts[k][1]) /\ ~IsNaN(idv_bodyparts[k][2])}}

\* len(assembly)
AssemblyLen(assembly) == Cardinality(assembly)

RECURSIVE SumLens(_)
SumLens(d) == IF d = <<>> THEN 0 ELSE Len(Head(d)[2]) + SumLens(Tail(d))

\* number of pairs of a one-to-one matching of equal assemblies: a
\* ground-truth assembly of an image is matched when fewer equal ground-truth
\* assemblies precede it than the image has equal predicted assemblies
Matched(ass_pred, ass_gt) ==
    SumSeq([n \in 1..Len(ass_gt) |->
        IF HasKey(ass_pred, ass_gt[n][1])
        THEN LET gt == ass_gt[n][2]
                 pred == DictGet(ass_pred, ass_gt[n][1])
             IN  Cardinality({k \in 1..Len(gt) :
                     Cardinality({m \in 1..(k - 1) : gt[m] = gt[k]})
                         < Cardinality({m \in 1..Len(pred) : pred[m] = gt[k]})})
        ELSE 0])

Ratio(num, den) == IF den = 0 THEN 0 ELSE (10 * num) \div den

\* evaluate_assembly: mAP and mAR in [0, 1]; 1.0 for perfectly matching assemblies
evaluate_assembly(ass_pred, ass_gt, oks_sigma, margin, symmetric_kpts) ==
    [mAP |-> Ratio(Matched(ass_pred, ass_gt), SumLens(ass_pred)),
     mAR |-> Ratio(Matched(ass_pred, ass_gt), SumLens(ass_gt))]

(***************************************************************************)
(* build_assemblies and compute_oks                                        *)
(***************************************************************************)
\* (a slip: every assembly appended)
KeepAssembly_Always(assembly) == AssemblyLen(assembly) >= 0

\* if len(assembly): image_assemblies.append(assembly)
KeepAssembly(assembly) == AssemblyLen(assembly) # 0

build_assemblies(d) ==
    [n \in 1..Len(d) |->
        <<d[n][1],
          SelectSeq([i \in 1..Len(d[n][2]) |-> AssemblyFromArray(d[n][2][i])],
                    KeepAssembly)>>]

\* keypoints[keypoints_with_scores[:, :, 2] < pcutoff] = np.nan on one keypoint
MaskKeypoint(kp, pc) ==
    IF pc # {} /\ (\E p \in pc : Lt(kp[3], p)) THEN <<NaN, NaN>>
    ELSE <<kp[1], kp[2]>>

\* masked_pred: a copy of the coordinates, masked when a pcutoff is given
MaskedPred(pred, pc) ==
    [n \in 1..Len(pred) |->
        <<pred[n][1],
          [i \in 1..Len(pred[n][2]) |-> [j \in 1..Len(pred[n][2][i]) |->
              MaskKeypoint(pred[n][2][i][j], pc)]]>>]

OksSigmaDefault == 1
MarginDefault == 0

\* what compute_oks hands to evaluate_assembly (pcutoff: the call's argument)
OksCall(pred, gt, oks_sigma, margin, symmetric_kpts, pc) ==
    [pcutoff |-> pc,
     assemblies_pred |-> build_assemblies(MaskedPred(pred, pc)),
     assemblies_gt |-> build_assemblies(gt),
     oks_sigma |-> oks_sigma,
     margin |-> margin,
     symmetric_kpts |-> symmetric_kpts]

compute_oks(pred, gt, oks_sigma, margin, symmetric_kpts, pc) ==
    LET call == OksCall(pred, gt, oks_sigma, margin, symmetric_kpts, pc)
    IN  [call |-> call,
         scores |-> evaluate_assembly(call.assemblies_pred, call.assemblies_gt,
                                      call.oks_sigma, call.margin,
                                      call.symmetric_kpts)]

(***************************************************************************)
(* get_scores                                                              *)
(***************************************************************************)
\* build_keypoint_array(poses, image_paths)[..., :3].reshape((-1, 3))
PredRows(d, image_paths) ==
    LET built == build_keypoint_array(d, image_paths)
    IN  IF built.err # "" THEN [err |-> built.err, rows |-> <<>>]
        ELSE Reshape(Flatten(TakeCols(built.arr, 3)), 3)

\* build_keypoint_array(ground_truth, image_paths).reshape((-1, 2))
GtRows(d, image_paths) ==
    LET built == build_keypoint_array(d, image_paths)
    IN  IF built.err # "" THEN [err |-> built.err, rows |-> <<>>]
        ELSE Reshape(Flatten(built.arr), 2)

\* pred_poses: the rows of poses, then (np.concatenate) those of the unique
\* bodyparts when they are given
AllPredRows(d, upp, image_paths) ==
    LET main == PredRows(d, image_paths)
    IN  IF main.err # "" \/ upp = {} THEN main
        ELSE LET uniq == PredRows(CHOOSE u \in upp : TRUE, image_paths)
             IN  IF uniq.err # "" THEN uniq
                 ELSE [err |-> "", rows |-> main.rows \o uniq.rows]

\* gt_poses: the unique bodypart ground truth is read only when
\* unique_bodypart_poses is given; None there raises TypeError
AllGtRows(d, upp, ugt, image_paths) ==
    LET main == GtRows(d, image_paths)
    IN  IF main.err # "" \/ upp = {} THEN main
        ELSE IF ugt = {} THEN [err |-> "TypeError", rows |-> <<>>]
        ELSE LET uniq == GtRows(CHOOSE u \in ugt : TRUE, image_paths)
             IN  IF uniq.err # "" THEN uniq
                 ELSE [err |-> "", rows |-> main.rows \o uniq.rows]

\* a raised exception, with the calls made before it
Raised(kind, calls) ==
    [fn |-> "get_scores", status |-> kind, calls |-> calls, scores |-> {},
     pred_poses |-> <<>>, gt_poses |-> <<>>, pred_origin |-> <<>>,
     gt_origin |-> <<>>, oks_calls |-> <<>>]

\* the array of a dict with every number replaced by where it came from: the
\* dict (part), the image key, the image's position in the dict, the
\* individual, the joint and the column
Origins(d, part) ==
    [n \in 1..Len(d) |->
        <<d[n][1],
          [i \in 1..Len(d[n][2]) |-> [j \in 1..Len(d[n][2][i]) |->
              [c \in 1..Len(d[n][2][i][j]) |->
                  [part |-> part, key |-> d[n][1], pos |-> n,
                   ind |-> i, joint |-> j, col |-> c]]]]>>]

OriginsOpt(opt, part) == {Origins(d, part) : d \in opt}

\* (a slip: only a longer prediction dict is refused)
SameImageCount_AtMost(p, g) == Len(p) <= Len(g)

\* len(poses) == len(ground_truth)
SameImageCount(p, g) == Len(p) = Len(g)

\* (a slip: the evaluator's fraction returned as it is)
Percent_Fraction(v) == v

\* 100 * oks["mAP"]
Percent(v) == 100 * v

get_scores(p, g, upp, ugt, pc) ==
    IF ~SameImageCount(p, g) THEN Raised("ValueError", <<>>)
    ELSE
    LET image_paths == DictKeys(p)
        pred_poses == AllPredRows(p, upp, image_paths)
        gt_poses == AllGtRows(g, upp, ugt, image_paths)
    IN
    IF PredRows(p, image_paths).err # ""
    THEN Raised(PredRows(p, image_paths).err, <<"build_keypoint_array">>)
    ELSE IF GtRows(g, image_paths).err # ""
    THEN Raised(GtRows(g, image_paths).err,
                <<"build_keypoint_array", "build_keypoint_array">>)
    ELSE IF pred_poses.err # ""
    THEN Raised(pred_poses.err, <<"build_keypoint_array",
                "build_keypoint_array", "build_keypoint_array">>)
    ELSE IF gt_poses.err # ""
    THEN Raised(gt_poses.err, <<"build_keypoint_array", "build_keypoint_array",
                "build_keypoint_array", "build_keypoint_array">>)
    ELSE
    LET built == [n \in 1..(IF upp = {} THEN 2 ELSE 4) |-> "build_keypoint_array"]
        rmse == compute_rmse(pred_poses.rows, gt_poses.rows, pc)
    IN
    IF rmse.err # "" THEN Raised(rmse.err, built \o <<"compute_rmse">>)
    ELSE
    LET oks == compute_oks(p, g, OksSigmaDefault, MarginDefault, {}, {})
        oks_pcutoff == compute_oks(p, g, OksSigmaDefault, MarginDefault, {}, {pc})
    IN  [fn |-> "get_scores",
         status |-> "ok",
         calls |-> built \o <<"compute_rmse", "compute_oks", "compute_oks">>,
         scores |-> {[rmse |-> rmse.rmse,
                      rmse_pcutoff |-> rmse.rmse_p,
                      mAP |-> Percent(oks.scores.mAP),
                      mAR |-> Percent(oks.scores.mAR),
                      mAP_pcutoff |-> Percent(oks_pcutoff.scores.mAP),
                      mAR_pcutoff |-> Percent(oks_pcutoff.scores.mAR)]},
         pred_poses |-> pred_poses.rows,
         gt_poses |-> gt_poses.rows,
         pred_origin |-> AllPredRows(Origins(p, "bodyparts"),
                             OriginsOpt(upp, "unique"), image_paths).rows,
         gt_origin |-> AllGtRows(Origins(g, "bodyparts"),
                           OriginsOpt(upp, "unique"), OriginsOpt(ugt, "unique"),
                           image_paths).rows,
         oks_calls |-> <<oks, oks_pcutoff>>]

(***************************************************************************)
(* The calls and their arguments.                                          *)
(***************************************************************************)
Idle == [fn |-> "none", status |-> "", calls |-> <<>>, scores |-> {},
         pred_poses |-> <<>>, gt_poses |-> <<>>, pred_origin |-> <<>>,
         gt_origin |-> <<>>, oks_calls |-> <<>>]

\* predicted keypoints (x, y, confidence) and ground-truth keypoints
\* (x, y, visibility); a ground-truth array keeps its first cols columns
PredKpts == {<<0, 0, 10>>, <<3, 4, 3>>}
GtKpts(cols) ==
    {SubSeq(k, 1, cols) : k \in {<<0, 0, 10>>, <<3, 4, 10>>, <<NaN, NaN, 0>>}}
Cutoffs == {0, 5}

Arrays(I, J, kpts) == [1..I -> [1..J -> kpts]]

\* the key lists of the dicts with n images: n distinct keys in some order
KeyLists(n) ==
    {ks \in [1..n -> 1..MaxImages] :
        \A a, b \in 1..n : a # b => ks[a] # ks[b]}

Dicts(keylists, n, arrays) ==
    {[m \in 1..n |-> <<ks[m], as[m]>>] : ks \in keylists, as \in [1..n -> arrays]}

\* the images of the prediction are named 1..n in insertion order; the ground
\* truth names its own in any order
InOrder(n) == {[m \in 1..n |-> m]}

\* unique bodyparts: one more (1, 1, cols) array per image of the prediction
UniqueFor(d, kp) == [n \in 1..Len(d) |-> <<d[n][1], <<<<kp>>>>>>]

Max(a, b) == IF a > b THEN a ELSE b

\* the arguments of the calls a specification does not make
NoScoring ==
    /\ poses = <<>> /\ ground_truth = <<>>
    /\ unique_bodypart_poses = {} /\ unique_bodypart_gt = {}
    /\ result = Idle /\ evaluated = {}

NoRmse ==
    /\ rmse_pred = <<>> /\ rmse_gt = <<>>
    /\ rmse_result = [fn |-> "none", status |-> "", scores |-> {}]

NoPredictor ==
    /\ heatmap = <<>> /\ locref = {} /\ scale_factors = <<2, 2>>
    /\ num_outputs = 1
    /\ top = [fn |-> "none", status |-> "", y |-> <<>>, x |-> <<>>]
    /\ pose = [fn |-> "none", status |-> "", y |-> <<>>, x |-> <<>>, pose |-> <<>>]

NoArrays ==
    /\ buffers = <<>> /\ dicts = <<>>
    /\ ret = [fn |-> "none", status |-> ""]

Init ==
    /\ NoRmse
    /\ NoPredictor
    /\ NoArrays
    /\ \E n \in 0..MaxImages, m \in 0..MaxImages,
          I \in 1..MaxIndividuals, J \in 1..MaxJoints, cols \in {2, 3} :
          /\ Max(n, m) * I * J <= MaxKpts
          /\ poses \in Dicts(InOrder(n), n, Arrays(I, J, PredKpts))
          /\ ground_truth \in Dicts(KeyLists(m), m, Arrays(I, J, GtKpts(cols)))
          /\ \/ /\ unique_bodypart_poses = {}
                /\ unique_bodypart_gt = {}
             \/ /\ unique_bodypart_poses = {UniqueFor(poses, <<3, 4, 10>>)}
                /\ unique_bodypart_gt \in {{}, {UniqueFor(poses, <<3, 4>>)}}
    /\ pcutoff \in Cutoffs
    /\ result = Idle
    /\ evaluated = {}

\* scores = get_scores(poses, ground_truth, unique_bodypart_poses,
\*                     unique_bodypart_gt, pcutoff)
GetScores ==
    /\ result.fn = "none"
    /\ result' = get_scores(poses, ground_truth, unique_bodypart_poses,
                            unique_bodypart_gt, pcutoff)
    /\ evaluated' = evaluated
            \cup {result'.oks_calls[n] : n \in 1..Len(result'.oks_calls)}
    /\ UNCHANGED <<poses, ground_truth, unique_bodypart_poses,
                   unique_bodypart_gt, pcutoff, rmse_vars, predictor_vars,
                   array_vars>>

Next == GetScores

Spec == Init /\ [][Next]_vars

(***************************************************************************)
(* Properties of get_scores (specification Spec).                          *)
(***************************************************************************)
Returned == result.fn = "get_scores"

\* the score dictionary of a call that returned one
Scores == CHOOSE sc \in result.scores : TRUE

\* C1: get_scores raises ValueError whenever the prediction and ground-truth
\* dicts hold different numbers of images, before any array is built and before
\* compute_rmse or compute_oks is called: no score dictionary is returned and
\* the evaluator is never reached.
C1_CountMismatchRaisesFirst ==
    (Returned /\ Len(poses) # Len(ground_truth)) =>
        /\ result.status = "ValueError"
        /\ result.calls = <<>>
        /\ result.scores = {}
        /\ evaluated = {}

C1_Witness ==
    /\ Returned
    /\ Len(poses) # Len(ground_truth)
    /\ result.status = "ValueError"

\* same image keys in the same order, same individuals and joints, the same
\* coordinates, and the same third column where the ground truth has one
SameKeypointSets(p, g) ==
    /\ Len(p) = Len(g)
    /\ \A n \in 1..Len(p) :
        /\ p[n][1] = g[n][1]
        /\ \A i \in 1..Len(p[n][2]) : \A j \in 1..Len(p[n][2][i]) :
            /\ p[n][2][i][j][1] = g[n][2][i][j][1]
            /\ p[n][2][i][j][2] = g[n][2][i][j][2]
            /\ Len(g[n][2][i][j]) = 3 => p[n][2][i][j][3] = g[n][2][i][j][3]

\* one image, one individual, two joints with confidence 1.0, pcutoff 0
C2_Scenario ==
    /\ Len(poses) = 1
    /\ Len(poses[1][2]) = 1
    /\ Len(poses[1][2][1]) = 2
    /\ \A j \in 1..2 : poses[1][2][1][j][3] = 10
    /\ SameKeypointSets(poses, ground_truth)
    /\ unique_bodypart_poses = {}
    /\ pcutoff = 0

C2_PerfectScores ==
    /\ result.status = "ok"
    /\ MeanIsZero(Scores.rmse)
    /\ MeanIsZero(Scores.rmse_pcutoff)
    /\ Scores.mAP = 1000 /\ Scores.mAR = 1000
    /\ Scores.mAP_pcutoff = 1000 /\ Scores.mAR_pcutoff = 1000

\* C2: identical single-image, single-individual, 2-joint prediction and
\* ground-truth sets (confidence 1.0) with pcutoff 0 score rmse = rmse_pcutoff
\* = 0.0 and mAP = mAR = mAP_pcutoff = mAR_pcutoff = 100.0.
C2_IdenticalSetsScorePerfect ==
    (Returned /\ C2_Scenario) => C2_PerfectScores

\* the same scenario with a ground truth of coordinates only, shape (1, 2, 2)
C2_CoordinatesOnlyScorePerfect ==
    (Returned /\ C2_Scenario /\ Len(ground_truth[1][2][1][1]) = 2)
        => C2_PerfectScores

\* every key of the prediction is a key of the ground truth, there is an image,
\* and the unique bodyparts, when given, come with their ground truth
C3_Applies ==
    /\ Returned
    /\ Len(poses) = Len(ground_truth)
    /\ Len(poses) > 0
    /\ \A n \in 1..Len(poses) : HasKey(ground_truth, poses[n][1])
    /\ unique_bodypart_poses = {} \/ unique_bodypart_gt # {}

\* the keypoint a number came from
KeypointOf(o) == [part |-> o.part, key |-> o.key, ind |-> o.ind, joint |-> o.joint]

\* row n of pred_poses is (x, y, confidence) of one keypoint and row n of
\* gt_poses is (x, y) of the same keypoint
RowsPaired ==
    /\ Len(result.pred_origin) = Len(result.gt_origin)
    /\ \A n \in 1..Len(result.pred_origin) :
        LET pr == result.pred_origin[n]
            gr == result.gt_origin[n]
        IN  /\ \A c \in 1..3 : pr[c].col = c /\ KeypointOf(pr[c]) = KeypointOf(pr[1])
            /\ \A c \in 1..2 : gr[c].col = c /\ KeypointOf(gr[c]) = KeypointOf(pr[1])

\* C3: for ground-truth arrays of shape (individuals, joints, 2) or
\* (individuals, joints, 3), get_scores computes the RMSE on flattened arrays
\* with the same number of rows whose n-th rows are the same keypoint.
C3_RowsPairSameKeypoint ==
    C3_Applies => (result.status = "ok" /\ RowsPaired)

\* the same for the coordinate-only ground truth, shape (individuals, joints, 2)
C3_TwoColumnRowsPaired ==
    (C3_Applies /\ Len(ground_truth[1][2][1][1]) = 2)
        => (result.status = "ok" /\ RowsPaired)

\* C4 as stated: equal image counts suffice, the key sets need not be
\* identical, and the n-th prediction image is scored against the n-th
\* ground-truth image (here for coordinate-only ground truth).
C4_PairedByIterationOrder ==
    (/\ Returned
     /\ Len(poses) = Len(ground_truth)
     /\ Len(poses) > 0
     /\ Len(ground_truth[1][2][1][1]) = 2
     /\ unique_bodypart_poses = {})
        => /\ result.status = "ok"
           /\ \A n \in 1..Len(result.gt_origin) :
                 result.gt_origin[n][1].pos = result.pred_origin[n][1].pos

\* C4 amended: with equal image counts, a prediction key missing from the
\* ground truth raises KeyError and no scores are returned; when scores are
\* returned, every row pairs a prediction image with the ground-truth image of
\* the same key, whatever the ground truth's iteration order.
C4_PairedByKey ==
    (Returned /\ Len(poses) = Len(ground_truth)) =>
        /\ (\E n \in 1..Len(poses) : ~HasKey(ground_truth, poses[n][1]))
              => (result.status = "KeyError" /\ result.scores = {})
        /\ result.status = "ok" =>
              /\ Len(result.gt_origin) = Len(result.pred_origin)
              /\ \A n \in 1..Len(result.gt_origin) :
                    result.gt_origin[n][1].key = result.pred_origin[n][1].key

C4_Witness ==
    /\ Returned
    /\ result.status = "ok"
    /\ Len(poses) = 2
    /\ DictKeys(ground_truth) # DictKeys(poses)

\* the predictions as compute_oks is to see them: coordinates only, those of
\* a keypoint whose confidence is below the cutoff pc replaced by NaN
\* (pc = {}: no cutoff, nothing replaced)
CoordinatesAbove(pc) ==
    [n \in 1..Len(poses) |->
        <<poses[n][1],
          [i \in 1..Len(poses[n][2]) |-> [j \in 1..Len(poses[n][2][i]) |->
              IF \E c \in pc : poses[n][2][i][j][3] < c
              THEN <<NaN, NaN>>
              ELSE <<poses[n][2][i][j][1], poses[n][2][i][j][2]>>]]>>]

\* what the evaluator answers for the predictions seen with cutoff pc
EvaluatorOn(pc) ==
    evaluate_assembly(build_assemblies(CoordinatesAbove(pc)),
                      build_assemblies(ground_truth),
                      OksSigmaDefault, MarginDefault, {})

SixKeys == {"rmse", "rmse_pcutoff", "mAP", "mAR", "mAP_pcutoff", "mAR_pcutoff"}

\* C13: a successful get_scores call returns exactly the six keys; mAP and
\* mAR are 100 times the evaluator's answer on the unmasked predictions
\* (whatever the pcutoff), mAP_pcutoff and mAR_pcutoff 100 times its answer on
\* the predictions masked with pcutoff, all four within [0, 100]; the two
\* RMSE values are those compute_rmse returned, unscaled.
C13_SixScores ==
    (Returned /\ result.status = "ok") =>
        /\ Cardinality(result.scores) = 1
        /\ \A s \in result.scores :
              /\ DOMAIN s = SixKeys
              /\ s.mAP = 100 * EvaluatorOn({}).mAP
              /\ s.mAR = 100 * EvaluatorOn({}).mAR
              /\ s.mAP_pcutoff = 100 * EvaluatorOn({pcutoff}).mAP
              /\ s.mAR_pcutoff = 100 * EvaluatorOn({pcutoff}).mAR
              /\ \A k \in {"mAP", "mAR", "mAP_pcutoff", "mAR_pcutoff"} :
                    s[k] >= 0 /\ s[k] <= 1000
              /\ \A pc \in Cutoffs :
                    \A t \in get_scores(poses, ground_truth, unique_bodypart_poses,
                                        unique_bodypart_gt, pc).scores :
                        t.mAP = s.mAP /\ t.mAR = s.mAR
              /\ LET rmse == compute_rmse(result.pred_poses, result.gt_poses, pcutoff)
                 IN  s.rmse = rmse.rmse /\ s.rmse_pcutoff = rmse.rmse_p

\* a successful call where the cutoff masks one of two matching individuals:
\* precision stays 100.0, recall is 100.0 without the cutoff and 50.0 with it
C13_Witness ==
    /\ Returned /\ result.status = "ok" /\ pcutoff = 5
    /\ \E s \in result.scores :
          /\ s.mAP = 1000 /\ s.mAR = 1000
          /\ s.mAP_pcutoff = 1000 /\ s.mAR_pcutoff = 500

(***************************************************************************)
(* compute_rmse called on its own (specification SpecRmse).                *)
(***************************************************************************)
RmsePredRows == {<<0, 0, 3>>, <<3, 4, 5>>, <<3, 0, 10>>}
RmseGtRows == {<<0, 0>>, <<0, 4>>, <<NaN, 0>>}
RmseCutoffs == {-10, 5}

RowArrays(rows) == UNION {[1..n -> rows] : n \in 0..MaxRows}

InitRmse ==
    /\ NoScoring
    /\ NoPredictor
    /\ NoArrays
    /\ rmse_pred \in RowArrays(RmsePredRows)
    /\ rmse_gt \in RowArrays(RmseGtRows)
    /\ pcutoff \in RmseCutoffs
    /\ rmse_result = [fn |-> "none", status |-> "", scores |-> {}]

\* rmse, rmse_p = compute_rmse(rmse_pred, rmse_gt, pcutoff)
ComputeRmse ==
    /\ rmse_result.fn = "none"
    /\ LET r == compute_rmse(rmse_pred, rmse_gt, pcutoff)
       IN  rmse_result' =
               IF r.err # ""
               THEN [fn |-> "compute_rmse", status |-> r.err, scores |-> {}]
               ELSE [fn |-> "compute_rmse", status |-> "ok",
                     scores |-> {<<r.rmse, r.rmse_p>>}]
    /\ UNCHANGED <<scoring_vars, pcutoff, rmse_pred, rmse_gt, predictor_vars,
                   array_vars>>

NextRmse == ComputeRmse

SpecRmse == InitRmse /\ [][NextRmse]_vars

RmseReturned == rmse_result.fn = "compute_rmse"

Rmse == (CHOOSE sc \in rmse_result.scores : TRUE)[1]

RmseCutoff == (CHOOSE sc \in rmse_result.scores : TRUE)[2]

\* the rows whose distance is a number: no NaN in either array's coordinates
FiniteRows ==
    {n \in 1..Len(rmse_pred) :
        \A c \in 1..2 : rmse_pred[n][c] # NaN /\ rmse_gt[n][c] # NaN}

\* the rows whose predicted confidence is pcutoff or more
ConfidentRows == {n \in 1..Len(rmse_pred) : rmse_pred[n][3] >= pcutoff}

\* the Euclidean distance between the prediction and the ground truth of row n
Distance(n) ==
    CHOOSE d \in 0..10 :
        d * d = (rmse_pred[n][1] - rmse_gt[n][1]) * (rmse_pred[n][1] - rmse_gt[n][1])
              + (rmse_pred[n][2] - rmse_gt[n][2]) * (rmse_pred[n][2] - rmse_gt[n][2])

RECURSIVE TotalDistance(_)
TotalDistance(rows) ==
    IF rows = {} THEN 0
    ELSE LET n == CHOOSE r \in rows : TRUE
         IN  Distance(n) + TotalDistance(rows \ {n})

\* C5: compute_rmse returns the mean distance over all rows and the mean
\* distance over exactly the rows with pred[:, 2] >= pcutoff (confidence equal
\* to pcutoff is kept); a row below pcutoff counts in rmse, not in rmse_pcutoff.
C5_TwoMeans ==
    (RmseReturned /\ Len(rmse_pred) = Len(rmse_gt)) =>
        /\ rmse_result.status = "ok"
        /\ Rmse.sum = TotalDistance(FiniteRows)
        /\ Rmse.n = Cardinality(FiniteRows)
        /\ RmseCutoff.sum = TotalDistance(FiniteRows \cap ConfidentRows)
        /\ RmseCutoff.n = Cardinality(FiniteRows \cap ConfidentRows)

\* a row at the cutoff is kept and a row below it (0.3 < 0.5) counts only in rmse
C5_Witness ==
    /\ RmseReturned /\ rmse_result.status = "ok"
    /\ pcutoff = 5
    /\ \E a, b \in FiniteRows :
          /\ rmse_pred[a][3] = 5 /\ rmse_pred[b][3] = 3
          /\ Distance(a) > 0 /\ Distance(b) = 0
    /\ Rmse.n = 2 /\ RmseCutoff.n = 1 /\ RmseCutoff.sum > 0

\* C6: rows with a NaN distance are left out of both means, not counted as
\* zero; when no row passes the cutoff or every distance is NaN the result is
\* NaN, and no error is raised.
C6_NaNRowsExcluded ==
    (RmseReturned /\ Len(rmse_pred) = Len(rmse_gt)) =>
        /\ rmse_result.status = "ok"
        /\ Rmse.n = Cardinality(FiniteRows)
        /\ RmseCutoff.n = Cardinality(FiniteRows \cap ConfidentRows)
        /\ FiniteRows = {} => MeanIsNaN(Rmse) /\ MeanIsNaN(RmseCutoff)
        /\ ConfidentRows = {} => MeanIsNaN(RmseCutoff)
        /\ FiniteRows # {} => ~MeanIsNaN(Rmse)

\* a NaN row beside a finite one, and a cutoff no row passes
C6_Witness ==
    /\ RmseReturned /\ rmse_result.status = "ok"
    /\ Len(rmse_pred) = 2
    /\ Cardinality(FiniteRows) = 1
    /\ ConfidentRows = {}
    /\ Rmse.n = 1 /\ MeanIsNaN(RmseCutoff)

\* C7: compute_rmse raises, and returns nothing, whenever pred and
\* ground_truth have different numbers of rows.
C7_RowMismatchRaises ==
    (RmseReturned /\ Len(rmse_pred) # Len(rmse_gt)) =>
        /\ rmse_result.status = "ValueError"
        /\ rmse_result.scores = {}

C7_Witness ==
    /\ RmseReturned
    /\ Len(rmse_pred) # Len(rmse_gt)
    /\ rmse_result.status = "ValueError"

(***************************************************************************)
(* HeatmapPredictor.get_top_values and get_pose_prediction                 *)
(* (specification SpecPredictor).  heatmap[b][y + 1][x + 1][j] is the      *)
(* code's heatmap[b, y, x, j]: grid positions y, x and flat indices count  *)
(* from 0 as in the code, batch items and joints from 1.                   *)
(***************************************************************************)
BatchSize(h) == Len(h)
Height(h) == Len(h[1])
Width(h) == Len(h[1][1])
NumJoints(h) == Len(h[1][1][1])

\* heatmap[b, y, x, j]
At(h, b, y, x, j) == h[b][y + 1][x + 1][j]

\* heatmap.reshape(batchsize, nx * ny, num_joints): entry [b][p + 1][j] is the
\* value at flat spatial index p
HeatmapFlat(h) ==
    LET buf == Flatten(h)
        nn == Width(h) * Height(h)
        J == NumJoints(h)
    IN  [b \in 1..BatchSize(h) |-> [p \in 1..nn |-> [j \in 1..J |->
            buf[(b - 1) * nn * J + (p - 1) * J + j]]]]

\* torch.topk(heatmap_flat, n_top, dim=1) may return idx, of shape
\* (batch, n_top, joints): per (batch, joint) n_top distinct flat indices, by
\* non-increasing value, no index left out holding a larger value.  Which of
\* several equal values comes first is up to torch.
IsTopK(flat, n_top, idx) ==
    \A b \in 1..Len(flat) : \A j \in 1..Len(flat[1][1]) :
        /\ \A n, m \in 1..n_top : n # m => idx[b][n][j] # idx[b][m][j]
        /\ \A n \in 1..(n_top - 1) :
              flat[b][idx[b][n][j] + 1][j] >= flat[b][idx[b][n + 1][j] + 1][j]
        /\ \A q \in 0..(Len(flat[1]) - 1) :
              (\A n \in 1..n_top : idx[b][n][j] # q)
                  => flat[b][q + 1][j] <= flat[b][idx[b][n_top][j] + 1][j]

TopK(flat, n_top) ==
    {idx \in [1..Len(flat) -> [1..n_top -> [1..Len(flat[1][1]) ->
                  0..(Len(flat[1]) - 1)]]] : IsTopK(flat, n_top, idx)}

\* (a slip: the height where the width belongs)
Unravel_ByHeight(index, nx, ny) == <<index \div ny, index % ny>>

\* y, x = heatmap_top // nx, heatmap_top % nx
Unravel(index, nx, ny) == <<index \div nx, index % nx>>

\* get_top_values, given the indices torch.topk returned
get_top_values(h, heatmap_top) ==
    [y |-> [b \in 1..Len(heatmap_top) |-> [n \in 1..Len(heatmap_top[b]) |->
               [j \in 1..Len(heatmap_top[b][n]) |->
                   Unravel(heatmap_top[b][n][j], Width(h), Height(h))[1]]]],
     x |-> [b \in 1..Len(heatmap_top) |-> [n \in 1..Len(heatmap_top[b]) |->
               [j \in 1..Len(heatmap_top[b][n]) |->
                   Unravel(heatmap_top[b][n][j], Width(h), Height(h))[2]]]]]

\* 0.5 * scale, for the even strides of the model
Half(scale) == scale \div 2

\* (a slip: the half stride left out)
ToImage_NoHalfStride(index, scale, offset) == index * scale + offset

\* x * scale_factors[1] + 0.5 * scale_factors[1] + dz[:, :, :, 0]
ToImage(index, scale, offset) == index * scale + Half(scale) + offset

\* dz[b, n, j, :]: the refinement offset (zeros without locref) and the score
Dz(h, lr, y, x, b, n, j) ==
    <<IF lr = {} THEN 0
      ELSE (CHOOSE l \in lr : TRUE)[b][y[b][n][j] + 1][x[b][n][j] + 1][j][1],
      IF lr = {} THEN 0
      ELSE (CHOOSE l \in lr : TRUE)[b][y[b][n][j] + 1][x[b][n][j] + 1][j][2],
      At(h, b, y[b][n][j], x[b][n][j], j)>>

\* get_pose_prediction, given the y, x get_top_values returned; sf is
\* scale_factors, sf[1] the code's scale_factors[0]
get_pose_prediction(h, lr, sf, k, y, x) ==
    [b \in 1..BatchSize(h) |-> [n \in 1..k |-> [j \in 1..NumJoints(h) |->
        <<ToImage(x[b][n][j], sf[2], Dz(h, lr, y, x, b, n, j)[1]),
          ToImage(y[b][n][j], sf[1], Dz(h, lr, y, x, b, n, j)[2]),
          Dz(h, lr, y, x, b, n, j)[3]>>]]]

HeatValues == {1, 5, 9}
Offsets == {<<0, 0>>, <<1, -2>>}
Strides == {<<2, 4>>}

Grids(B, H, W, J, values) == [1..B -> [1..H -> [1..W -> [1..J -> values]]]]

InitPredictor ==
    /\ NoScoring
    /\ NoRmse
    /\ NoArrays
    /\ pcutoff = 0
    /\ \E B \in 1..MaxCells, H \in 1..MaxCells, W \in 1..MaxCells, J \in 1..MaxCells :
          /\ B * H * W * J <= MaxCells
          /\ heatmap \in Grids(B, H, W, J, HeatValues)
          /\ locref \in {{}} \cup {{l} : l \in Grids(B, H, W, J, Offsets)}
    /\ scale_factors \in Strides
    /\ num_outputs \in 1..MaxTop
    /\ top = [fn |-> "none", status |-> "", y |-> <<>>, x |-> <<>>]
    /\ pose = [fn |-> "none", status |-> "", y |-> <<>>, x |-> <<>>, pose |-> <<>>]

NoCallYet == top.fn = "none" /\ pose.fn = "none"

\* torch.topk raises when n_top exceeds the size of the dimension
TopKInRange(h, n_top) == n_top <= Width(h) * Height(h)

\* y, x = predictor.get_top_values(heatmap, n_top=num_outputs)
GetTopValues ==
    /\ NoCallYet
    /\ \/ /\ ~TopKInRange(heatmap, num_outputs)
          /\ top' = [fn |-> "get_top_values", status |-> "RuntimeError",
                     y |-> <<>>, x |-> <<>>]
       \/ /\ TopKInRange(heatmap, num_outputs)
          /\ \E heatmap_top \in TopK(HeatmapFlat(heatmap), num_outputs) :
                top' = [fn |-> "get_top_values", status |-> "ok",
                        y |-> get_top_values(heatmap, heatmap_top).y,
                        x |-> get_top_values(heatmap, heatmap_top).x]
    /\ UNCHANGED <<scoring_vars, pcutoff, rmse_vars, heatmap, locref,
                   scale_factors, num_outputs, pose, array_vars>>

\* pose = predictor.get_pose_prediction(heatmap, locref, scale_factors, num_outputs)
GetPosePrediction ==
    /\ NoCallYet
    /\ \/ /\ ~TopKInRange(heatmap, num_outputs)
          /\ pose' = [fn |-> "get_pose_prediction", status |-> "RuntimeError",
                      y |-> <<>>, x |-> <<>>, pose |-> <<>>]
       \/ /\ TopKInRange(heatmap, num_outputs)
          /\ \E heatmap_top \in TopK(HeatmapFlat(heatmap), num_outputs) :
                LET yx == get_top_values(heatmap, heatmap_top)
                IN  pose' = [fn |-> "get_pose_prediction", status |-> "ok",
                             y |-> yx.y, x |-> yx.x,
                             pose |-> get_pose_prediction(heatmap, locref,
                                          scale_factors, num_outputs, yx.y, yx.x)]
    /\ UNCHANGED <<scoring_vars, pcutoff, rmse_vars, heatmap, locref,
                   scale_factors, num_outputs, top, array_vars>>

NextPredictor == GetTopValues \/ GetPosePrediction

SpecPredictor == InitPredictor /\ [][NextPredictor]_vars

(***************************************************************************)
(* Properties of the predictor (specification SpecPredictor).              *)
(***************************************************************************)
\* every returned position lies on the grid
OnGrid(ys, xs) ==
    \A b \in 1..BatchSize(heatmap) : \A n \in 1..num_outputs :
        \A j \in 1..NumJoints(heatmap) :
            /\ 0 <= ys[b][n][j] /\ ys[b][n][j] < Height(heatmap)
            /\ 0 <= xs[b][n][j] /\ xs[b][n][j] < Width(heatmap)

\* heatmap[b, y, x, j] at the rank-n position of (b, j)
Confidence(ys, xs, b, n, j) == At(heatmap, b, ys[b][n][j], xs[b][n][j], j)

\* per (batch, joint): distinct positions, by non-increasing confidence, and
\* no position left out holds more than the last one returned
KLargestInOrder(ys, xs) ==
    \A b \in 1..BatchSize(heatmap) : \A j \in 1..NumJoints(heatmap) :
        /\ \A n, m \in 1..num_outputs :
              n # m => <<ys[b][n][j], xs[b][n][j]>> # <<ys[b][m][j], xs[b][m][j]>>
        /\ \A n \in 1..(num_outputs - 1) :
              Confidence(ys, xs, b, n, j) >= Confidence(ys, xs, b, n + 1, j)
        /\ \A gy \in 0..(Height(heatmap) - 1) : \A gx \in 0..(Width(heatmap) - 1) :
              (\A n \in 1..num_outputs : <<ys[b][n][j], xs[b][n][j]>> # <<gy, gx>>)
                  => At(heatmap, b, gy, gx, j)
                         <= Confidence(ys, xs, b, num_outputs, j)

HasShape(a, B, K, J) ==
    /\ Len(a) = B
    /\ \A b \in 1..B : Len(a[b]) = K /\ \A n \in 1..K : Len(a[b][n]) = J

\* C8: for every heatmap of shape (B, H, W, J) and k <= H*W, get_top_values
\* returns per (batch, joint) k grid positions (y, x), 0 <= y < H, 0 <= x < W,
\* that are the positions of the k largest values of that slice, by
\* non-increasing heatmap[b, y, x, j] from rank 0 to rank k-1.
C8_TopKPositions ==
    (top.fn = "get_top_values"
        /\ num_outputs <= Height(heatmap) * Width(heatmap)) =>
        /\ top.status = "ok"
        /\ HasShape(top.y, BatchSize(heatmap), num_outputs, NumJoints(heatmap))
        /\ HasShape(top.x, BatchSize(heatmap), num_outputs, NumJoints(heatmap))
        /\ OnGrid(top.y, top.x)
        /\ KLargestInOrder(top.y, top.x)

\* a grid wider than high, two ranks of different confidence, a position left out
C8_Witness ==
    /\ top.fn = "get_top_values" /\ top.status = "ok"
    /\ Height(heatmap) # Width(heatmap)
    /\ num_outputs = 2
    /\ num_outputs < Height(heatmap) * Width(heatmap)
    /\ Confidence(top.y, top.x, 1, 1, 1) > Confidence(top.y, top.x, 1, 2, 1)
    /\ top.x[1][1][1] > 0

\* the refinement offset read at (b, Y, X, j): locref[b, Y, X, j, :] or (0, 0)
OffsetAt(b, y, x, j) ==
    IF locref = {} THEN <<0, 0>>
    ELSE (CHOOSE l \in locref : TRUE)[b][y + 1][x + 1][j]

C9_WitnessNoLocref ==
    /\ pose.fn = "get_pose_prediction" /\ pose.status = "ok"
    /\ locref = {}
    /\ Height(heatmap) > 1
    /\ \E n \in 1..num_outputs : pose.y[1][n][1] > 0

(***************************************************************************)
(* compute_oks called on its own (specification SpecOks).                  *)
(***************************************************************************)
OksPredKpts == {<<0, 0, 10>>, <<3, 4, 3>>, <<NaN, NaN, 10>>}
OksGtKpts(cols) == {SubSeq(k, 1, cols) : k \in {<<0, 0, 10>>, <<NaN, NaN, 0>>}}
SymmetricKpts == {{}, {<<1, 2>>}}

InitOks ==
    /\ NoRmse
    /\ NoPredictor
    /\ NoArrays
    /\ \E n \in 1..MaxImages, I \in 1..MaxIndividuals, J \in 1..MaxJoints,
          cols \in {2, 3} :
          /\ n * I * J <= MaxKpts
          /\ poses \in Dicts(InOrder(n), n, Arrays(I, J, OksPredKpts))
          /\ ground_truth \in Dicts(InOrder(n), n, Arrays(I, J, OksGtKpts(cols)))
    /\ unique_bodypart_poses = {}
    /\ unique_bodypart_gt = {}
    /\ pcutoff \in Cutoffs
    /\ result = Idle
    /\ evaluated = {}

\* compute_oks(poses, ground_truth, symmetric_kpts=sym, pcutoff=pc), pc being
\* None or the caller's cutoff
ComputeOks ==
    /\ Cardinality(evaluated) < MaxCalls
    /\ \E pc \in {{}, {pcutoff}}, sym \in SymmetricKpts :
          LET r == compute_oks(poses, ground_truth, OksSigmaDefault,
                               MarginDefault, sym, pc)
          IN  /\ r \notin evaluated
              /\ evaluated' = evaluated \cup {r}
    /\ UNCHANGED <<poses, ground_truth, unique_bodypart_poses,
                   unique_bodypart_gt, result, pcutoff, rmse_vars,
                   predictor_vars, array_vars>>

NextOks == ComputeOks

SpecOks == InitOks /\ [][NextOks]_vars

\* the array stored under the key of the n-th image
ImageOf(d, n) == d[n][2]

\* joint j of individual i of image n is finite in the prediction after the
\* masking of a call with cutoff pc (None: no masking)
PredJointLeft(n, i, j, pc) ==
    LET kp == ImageOf(poses, n)[i][j]
    IN  /\ kp[1] # NaN /\ kp[2] # NaN
        /\ \A p \in pc : ~(kp[3] < p)

GtJointFinite(n, i, j) ==
    ImageOf(ground_truth, n)[i][j][1] # NaN /\ ImageOf(ground_truth, n)[i][j][2] # NaN

\* the individuals of image n with a joint left
PredIndividualsLeft(n, pc) ==
    {i \in 1..Len(ImageOf(poses, n)) :
        \E j \in 1..Len(ImageOf(poses, n)[i]) : PredJointLeft(n, i, j, pc)}

GtIndividualsLeft(n) ==
    {i \in 1..Len(ImageOf(ground_truth, n)) :
        \E j \in 1..Len(ImageOf(ground_truth, n)[i]) : GtJointFinite(n, i, j)}

\* every assembly of the lists has a joint, and all its coordinates are finite
AllAssembliesFinite(lists) ==
    \A n \in 1..Len(lists) : \A a \in 1..Len(lists[n][2]) :
        /\ lists[n][2][a] # {}
        /\ \A jt \in lists[n][2][a] : jt[2] # NaN /\ jt[3] # NaN

\* C10: in compute_oks an individual whose joints are all NaN after the
\* confidence masking is in no assembly list handed to the evaluator, every
\* assembly handed over has a finite joint, per image the predicted assemblies
\* built with a pcutoff are at most as many as those built without, and the
\* ground-truth assemblies are the same with and without a pcutoff.
C10_AssembliesAfterMasking ==
    /\ \A e \in evaluated :
          /\ AllAssembliesFinite(e.call.assemblies_pred)
          /\ AllAssembliesFinite(e.call.assemblies_gt)
          /\ Len(e.call.assemblies_pred) = Len(poses)
          /\ \A n \in 1..Len(poses) :
                /\ Len(e.call.assemblies_pred[n][2])
                      = Cardinality(PredIndividualsLeft(n, e.call.pcutoff))
                /\ Len(e.call.assemblies_gt[n][2])
                      = Cardinality(GtIndividualsLeft(n))
    /\ \A e, f \in evaluated :
          /\ e.call.assemblies_gt = f.call.assemblies_gt
          /\ (e.call.pcutoff = {} /\ f.call.pcutoff # {}) =>
                \A n \in 1..Len(poses) :
                    Len(f.call.assemblies_pred[n][2])
                        <= Len(e.call.assemblies_pred[n][2])

\* a call with and a call without pcutoff on an image where the cutoff masks
\* one individual away and the other keeps a joint
C10_Witness ==
    \E e, f \in evaluated :
        /\ e.call.pcutoff = {} /\ f.call.pcutoff = {5}
        /\ Len(ImageOf(poses, 1)) = 2
        /\ Len(e.call.assemblies_pred[1][2]) = 2
        /\ Len(f.call.assemblies_pred[1][2]) = 1
        /\ Len(e.call.assemblies_gt[1][2]) = 1

\* C12: a symmetric_kpts value given to compute_oks never reaches the
\* evaluator: the call either raises a not-implemented error (and makes no
\* evaluator call) or hands the evaluator None.
C12_SymmetricKptsNeverReachEvaluator ==
    \A e \in evaluated : e.call.symmetric_kpts = {}

(***************************************************************************)
(* Arrays and dicts as Python objects.  A buffer is an array of shape      *)
(* (individuals, joints, columns); a reference is its index in buffers, a  *)
(* dict reference the index of the dict in dicts.  A view is what basic    *)
(* indexing gives: the buffer it shares, the individual it selects (0: all *)
(* of them, shape (I, J, cols); i: keypoints[i], shape (J, cols)) and the  *)
(* number of leading columns it shows.  A write through a view changes the *)
(* buffer, hence every other view of it.                                   *)
(***************************************************************************)
View(ref, ind, cols) == [ref |-> ref, ind |-> ind, cols |-> cols]

\* the individuals of buffer a that a view with selector ind shows
Individuals(a, ind) == IF ind = 0 THEN [i \in 1..Len(a) |-> i] ELSE <<ind>>

\* the values seen through view v
ReadView(h, v) ==
    LET a == h[v.ref]
        inds == Individuals(a, v.ind)
    IN  [i \in 1..Len(inds) |-> [j \in 1..Len(a[inds[i]]) |->
            SubSeq(a[inds[i]][j], 1, v.cols)]]

\* view[...] = data: the buffers after storing data in the cells v shows
WriteView(h, v, data) ==
    LET a == h[v.ref]
    IN  [h EXCEPT ![v.ref] =
            [i \in 1..Len(a) |->
                IF v.ind = 0 \/ v.ind = i
                THEN [j \in 1..Len(a[i]) |->
                         data[IF v.ind = 0 THEN i ELSE 1][j]
                             \o SubSeq(a[i][j], v.cols + 1, Len(a[i][j]))]
                ELSE a[i]]]

\* a new buffer holding data, and the view of the whole of it
NewArray(h, data, ind, cols) ==
    [buffers |-> Append(h, data),
     view |-> View(Len(h) + 1, IF ind = 0 THEN 0 ELSE 1, cols)]

\* (a slip: the copy left out, the name keeps denoting the argument)
CopyArray_Alias(h, v) == [buffers |-> h, view |-> v]

\* v.copy(): a new buffer holding what v shows
CopyArray(h, v) == NewArray(h, ReadView(h, v), v.ind, v.cols)

\* the dict of values a dict of views denotes
Values(h, d) == [n \in 1..Len(d) |-> <<d[n][1], ReadView(h, d[n][2])>>]

\* d[k] = v on a dict
DictSet(d, k, v) ==
    IF HasKey(d, k)
    THEN [n \in 1..Len(d) |-> IF d[n][1] = k THEN <<k, v>> ELSE d[n]]
    ELSE Append(d, <<k, v>>)

\* the caller's dicts: predictions is dict 1, ground_truth is dict 2
PredDict == 1
GtDict == 2

(***************************************************************************)
(* mask_invisible                                                          *)
(***************************************************************************)
\* (a slip: every flag other than 1 taken as invisible)
IsInvisible_NotOne(flag) == flag # 10

\* keypoints[..., 2] == 0
IsInvisible(flag) == flag = 0

\* keypoints[visibility, 0] = mask_value; keypoints[visibility, 1] = mask_value
MaskRows(kp, mask_value) ==
    LET visibility == [i \in 1..Len(kp) |-> [j \in 1..Len(kp[i]) |->
                          IsInvisible(kp[i][j][3])]]
    IN  [i \in 1..Len(kp) |-> [j \in 1..Len(kp[i]) |->
            IF visibility[i][j]
            THEN <<mask_value, mask_value>> \o SubSeq(kp[i][j], 3, Len(kp[i][j]))
            ELSE kp[i][j]]]

\* mask_invisible(v, mask_value): the copy is masked and its first two columns
\* are returned; an array without a third column raises IndexError
mask_invisible(h, v, mask_value) ==
    LET keypoints == CopyArray(h, v)
    IN  IF v.cols < 3
        THEN [err |-> "IndexError", buffers |-> keypoints.buffers, view |-> v]
        ELSE [err |-> "",
              buffers |-> WriteView(keypoints.buffers, keypoints.view,
                              MaskRows(ReadView(keypoints.buffers, keypoints.view),
                                       mask_value)),
              view |-> [keypoints.view EXCEPT !.cols = 2]]

(***************************************************************************)
(* compute_oks on the caller's objects                                     *)
(***************************************************************************)
\* the state of a running compute_oks call: the objects and masked_pred
OksState(h, ds, masked_pred) ==
    [buffers |-> h, dicts |-> ds, value |-> masked_pred]

\* one turn of the masking loop, for the item (image_path,
\* keypoints_with_scores) of pred: the copy of the first two columns is
\* masked where the third is below the cutoff, and stored in masked_pred
MaskImage(st, image_path, keypoints_with_scores, pc) ==
    LET keypoints == CopyArray(st.buffers, [keypoints_with_scores EXCEPT !.cols = 2])
        with_scores == ReadView(keypoints.buffers, keypoints_with_scores)
        coords == ReadView(keypoints.buffers, keypoints.view)
        masked == [i \in 1..Len(coords) |-> [j \in 1..Len(coords[i]) |->
                      MaskKeypoint(coords[i][j] \o <<with_scores[i][j][3]>>, pc)]]
    IN  OksState(IF pc = {} THEN keypoints.buffers
                 ELSE WriteView(keypoints.buffers, keypoints.view, masked),
                 [st.dicts EXCEPT ![st.value] = DictSet(@, image_path, keypoints.view)],
                 st.value)

RECURSIVE MaskFrom(_, _, _, _)
MaskFrom(st, items, n, pc) ==
    IF n > Len(items) THEN st
    ELSE MaskFrom(MaskImage(st, items[n][1], items[n][2], pc), items, n + 1, pc)

\* compute_oks(pred, ground_truth, oks_sigma, margin, symmetric_kpts, pcutoff),
\* pred and ground_truth being the dicts PredDict and GtDict of ds
ComputeOksOn(h, ds, oks_sigma, margin, symmetric_kpts, pc) ==
    LET st == MaskFrom(OksState(h, Append(ds, <<>>), Len(ds) + 1),
                       ds[PredDict], 1, pc)
        assemblies_pred == build_assemblies(Values(st.buffers, st.dicts[st.value]))
        assemblies_gt == build_assemblies(Values(st.buffers, st.dicts[GtDict]))
    IN  [buffers |-> st.buffers, dicts |-> st.dicts, value |-> st.value,
         scores |-> evaluate_assembly(assemblies_pred, assemblies_gt, oks_sigma,
                                      margin, symmetric_kpts)]

(***************************************************************************)
(* rmse_match_prediction_to_gt (post_processing, outside this excerpt)     *)
(***************************************************************************)
\* the permutations of the indices 1..n
IndexPermutations(n) ==
    {f \in [1..n -> 1..n] : \A a, b \in 1..n : a # b => f[a] # f[b]}

\* the distance of a predicted keypoint to a ground-truth keypoint
KeypointDistance(p, g) ==
    Sqrt(Add(Square(Sub(p[1], g[1])), Square(Sub(p[2], g[2]))))

\* the total keypoint distance when prediction match[i] is given to ground
\* truth individual i
TotalKeypointDistance(pred_pose, gt_pose, match) ==
    SumSeq([i \in 1..Len(gt_pose) |->
        SumSeq([j \in 1..Len(gt_pose[i]) |->
            KeypointDistance(pred_pose[match[i]][j], gt_pose[i][j])])])

\* the permutations the matcher may return: those of least total distance
rmse_match_prediction_to_gt(pred_pose, gt_pose) ==
    {match \in IndexPermutations(Len(pred_pose)) :
        \A other \in IndexPermutations(Len(pred_pose)) :
            TotalKeypointDistance(pred_pose, gt_pose, match)
                <= TotalKeypointDistance(pred_pose, gt_pose, other)}

(***************************************************************************)
(* align_predicted_individuals_to_gt                                       *)
(***************************************************************************)
\* np.nan_to_num(gt_pose, nan=value): the values of a new array
NanToNum(kp, value) ==
    [i \in 1..Len(kp) |-> [j \in 1..Len(kp[i]) |->
        [c \in 1..Len(kp[i][j]) |->
            IF IsNaN(kp[i][j][c]) THEN value ELSE kp[i][j][c]]]]

\* (a slip: the individuals left in the order of the prediction)
TakeIndividuals_Unordered(pred_pose, match) == pred_pose

\* pose[match_individuals]: the values of a new array
TakeIndividuals(pred_pose, match) == [i \in 1..Len(match) |-> pred_pose[match[i]]]

\* the state of a running align call: the objects, the dict being filled, the
\* calls made to the matcher and the exception raised, if any
AlignState(h, ds, matched_poses, matches, err) ==
    [buffers |-> h, dicts |-> ds, value |-> matched_poses,
     matches |-> matches, err |-> err]

\* one turn of the loop, for the item (image, pred_pose) of predictions, the
\* matcher answering match
AlignImage(st, image, pred_pose, match) ==
    IF ~HasKey(st.dicts[GtDict], image)
    THEN [st EXCEPT !.err = "KeyError"]
    ELSE
    LET masked == mask_invisible(st.buffers, DictGet(st.dicts[GtDict], image), -1)
    IN
    IF masked.err # ""
    THEN [st EXCEPT !.err = masked.err, !.buffers = masked.buffers]
    ELSE
    LET gt_pose == NewArray(masked.buffers,
                       NanToNum(ReadView(masked.buffers, masked.view), -1), 0, 2)
        pose_seen == ReadView(gt_pose.buffers, pred_pose)
        gt_seen == ReadView(gt_pose.buffers, gt_pose.view)
        matched == NewArray(gt_pose.buffers,
                       TakeIndividuals(pose_seen, match), 0, pred_pose.cols)
    IN  AlignState(matched.buffers,
                   [st.dicts EXCEPT ![st.value] = DictSet(@, image, matched.view)],
                   st.value,
                   Append(st.matches,
                          [image |-> image, pose |-> pose_seen,
                           gt_pose |-> gt_seen, match |-> match]),
                   "")

\* the loop over predictions.items() from item n on; picks[n] is the answer
\* of the matcher for item n
RECURSIVE AlignFrom(_, _, _, _)
AlignFrom(st, items, n, picks) ==
    IF n > Len(items) \/ st.err # "" THEN st
    ELSE AlignFrom(AlignImage(st, items[n][1], items[n][2], picks[n]),
                   items, n + 1, picks)

\* align_predicted_individuals_to_gt(predictions, ground_truth), the dicts
\* PredDict and GtDict of ds
align_predicted_individuals_to_gt(h, ds, picks) ==
    AlignFrom(AlignState(h, Append(ds, <<>>), Len(ds) + 1, <<>>, ""),
              ds[PredDict], 1, picks)

(***************************************************************************)
(* Calls on arrays the caller owns (specification SpecArrays).  poses and  *)
(* ground_truth keep the values the caller's dicts held before the call;   *)
(* buffers and dicts are the objects themselves.                           *)
(***************************************************************************)
\* keypoints (x, y, score) and (x, y, visibility); the coordinates lie on one
\* line with the sentinel (-1, -1), 5 apart, so that every distance is whole
ArrayPredKpts == {<<2, 3, 10>>, <<5, 7, 3>>}
ArrayGtKpts(cols) ==
    {SubSeq(k, 1, cols) :
        k \in {<<2, 3, 10>>, <<5, 7, 20>>, <<5, 7, 0>>, <<NaN, NaN, 10>>}}
MaskValues == {-1, NaN}

\* the buffers the caller allocated for the arrays of d, and the dict of them
CallerBuffers(p, g) ==
    [n \in 1..(Len(p) + Len(g)) |->
        IF n <= Len(p) THEN p[n][2] ELSE g[n - Len(p)][2]]

CallerDict(d, first) ==
    [n \in 1..Len(d) |->
        <<d[n][1], View(first + n, 0, Len(d[n][2][1][1]))>>]

CallerDicts(p, g) == <<CallerDict(p, 0), CallerDict(g, Len(p))>>

InitArrays ==
    /\ NoRmse
    /\ NoPredictor
    /\ \E n \in 0..MaxImages, I \in 1..MaxIndividuals, J \in 1..MaxJoints,
          cols \in {2, 3} :
          /\ n * I * J <= MaxKpts
          /\ poses \in Dicts(InOrder(n), n, Arrays(I, J, ArrayPredKpts))
          /\ ground_truth \in Dicts(KeyLists(n), n, Arrays(I, J, ArrayGtKpts(cols)))
    /\ unique_bodypart_poses = {}
    /\ unique_bodypart_gt = {}
    /\ pcutoff = 5
    /\ result = Idle
    /\ evaluated = {}
    /\ buffers = CallerBuffers(poses, ground_truth)
    /\ dicts = CallerDicts(poses, ground_truth)
    /\ ret = [fn |-> "none", status |-> ""]

\* mask_invisible(ground_truth[image], mask_value) or
\* mask_invisible(ground_truth[image][ind], mask_value)
MaskInvisible ==
    /\ ret.fn = "none"
    /\ \E n \in 1..Len(dicts[GtDict]), mask_value \in MaskValues :
       \E ind \in 0..Len(buffers[dicts[GtDict][n][2].ref]) :
          \E arg \in {[dicts[GtDict][n][2] EXCEPT !.ind = ind]} :
          \E r \in {mask_invisible(buffers, arg, mask_value)} :
              /\ buffers' = r.buffers
              /\ ret' = [fn |-> "mask_invisible",
                         status |-> IF r.err = "" THEN "ok" ELSE r.err,
                         image |-> n, arg |-> arg, mask_value |-> mask_value,
                         value |-> r.view]
    /\ UNCHANGED <<scoring_vars, pcutoff, rmse_vars, predictor_vars, dicts>>

\* matched = align_predicted_individuals_to_gt(predictions, ground_truth); the
\* matcher answers each of its calls with one of the permutations it may return
AlignIndividuals ==
    /\ ret.fn = "none"
    /\ \E picks \in [1..Len(dicts[PredDict]) ->
                        IndexPermutations(IF poses = <<>> THEN 1
                                     ELSE Len(ImageOf(poses, 1)))] :
          \E r \in {align_predicted_individuals_to_gt(buffers, dicts, picks)} :
              /\ \A k \in 1..Len(r.matches) :
                    r.matches[k].match \in
                        rmse_match_prediction_to_gt(r.matches[k].pose,
                                                    r.matches[k].gt_pose)
              /\ buffers' = r.buffers
              /\ dicts' = r.dicts
              /\ ret' = [fn |-> "align_predicted_individuals_to_gt",
                         status |-> IF r.err = "" THEN "ok" ELSE r.err,
                         value |-> r.value, matches |-> r.matches]
    /\ UNCHANGED <<scoring_vars, pcutoff, rmse_vars, predictor_vars>>

\* compute_oks(predictions, ground_truth, pcutoff=pc), pc being None or the
\* caller's cutoff
ComputeOksOnArrays ==
    /\ ret.fn = "none"
    /\ \E pc \in {{}, {pcutoff}} :
       \E r \in {ComputeOksOn(buffers, dicts, OksSigmaDefault, MarginDefault,
                               {}, pc)} :
              /\ buffers' = r.buffers
              /\ dicts' = r.dicts
              /\ ret' = [fn |-> "compute_oks", status |-> "ok", pcutoff |-> pc,
                         value |-> r.value, scores |-> r.scores]
    /\ UNCHANGED <<scoring_vars, pcutoff, rmse_vars, predictor_vars>>

NextArrays == MaskInvisible \/ AlignIndividuals \/ ComputeOksOnArrays

SpecArrays == InitArrays /\ [][NextArrays]_vars

(***************************************************************************)
(* Properties of mask_invisible (specification SpecArrays).                *)
(***************************************************************************)
\* the keypoints the caller's ground truth of image n held before the call,
\* as the view with selector ind shows them
GtBefore(n, ind) ==
    LET a == ImageOf(ground_truth, n)
        inds == Individuals(a, ind)
    IN  [i \in 1..Len(inds) |-> a[inds[i]]]

\* C11: mask_invisible on a keypoint array of shape (..., 3) returns an array
\* of shape (..., 2) of the same leading shape, where both coordinates are
\* mask_value at every keypoint whose visibility flag is 0 and both are the
\* input's coordinates at every keypoint whose flag is not 0.
C11_MaskInvisible ==
    (ret.fn = "mask_invisible" /\ ret.arg.cols = 3) =>
        LET input == GtBefore(ret.image, ret.arg.ind)
            output == ReadView(buffers, ret.value)
        IN  /\ ret.status = "ok"
            /\ ret.value.cols = 2
            /\ (ret.value.ind = 0) <=> (ret.arg.ind = 0)
            /\ Len(output) = Len(input)
            /\ \A i \in 1..Len(input) :
                  /\ Len(output[i]) = Len(input[i])
                  /\ \A j \in 1..Len(input[i]) :
                        /\ Len(output[i][j]) = 2
                        /\ input[i][j][3] = 0 =>
                              output[i][j] = <<ret.mask_value, ret.mask_value>>
                        /\ input[i][j][3] # 0 =>
                              output[i][j] = <<input[i][j][1], input[i][j][2]>>

\* a call on an array with an invisible keypoint that has coordinates, a
\* visible one and one flagged 2, masked with a value that is not a coordinate
C11_Witness ==
    /\ ret.fn = "mask_invisible" /\ ret.status = "ok" /\ ret.arg.cols = 3
    /\ ret.mask_value = -1
    /\ LET input == GtBefore(ret.image, ret.arg.ind)
       IN  /\ \E i \in 1..Len(input) : \E j \in 1..Len(input[i]) :
                 input[i][j] = <<5, 7, 0>>
           /\ \E i \in 1..Len(input) : \E j \in 1..Len(input[i]) :
                 input[i][j] = <<5, 7, 20>>

(***************************************************************************)
(* Properties of align_predicted_individuals_to_gt (SpecArrays).           *)
(***************************************************************************)
Aligned == ret.fn = "align_predicted_individuals_to_gt" /\ ret.status = "ok"

\* the ground truth of the image with key image as the matcher is to see it:
\* the coordinates, (-1, -1) for an invisible keypoint and -1 for a NaN
GtForMatcher(image) ==
    LET gt == DictGet(ground_truth, image)
    IN  [i \in 1..Len(gt) |-> [j \in 1..Len(gt[i]) |->
            IF gt[i][j][3] = 0 THEN <<-1, -1>>
            ELSE [c \in 1..2 |-> IF gt[i][j][c] = NaN THEN -1 ELSE gt[i][j][c]]]]

\* C14: align_predicted_individuals_to_gt returns a map with exactly the keys
\* of predictions; for every image the matcher was given the prediction and
\* the ground truth with invisible and NaN keypoints replaced by -1, and the
\* returned array is the prediction with individual i being individual
\* perm[i] of the input, perm the permutation the matcher returned: every
\* individual of the input is in the output once, with its keypoints unaltered.
C14_AlignReorders ==
    Aligned =>
        LET out == Values(buffers, dicts[ret.value])
        IN  /\ DictKeys(out) = DictKeys(poses)
            /\ Len(ret.matches) = Len(poses)
            /\ \A n \in 1..Len(poses) :
                  LET before == ImageOf(poses, n)
                      after == ImageOf(out, n)
                      perm == ret.matches[n].match
                  IN  /\ ret.matches[n].image = poses[n][1]
                      /\ ret.matches[n].pose = before
                      /\ ret.matches[n].gt_pose = GtForMatcher(poses[n][1])
                      /\ perm \in IndexPermutations(Len(before))
                      /\ Len(after) = Len(before)
                      /\ \A i \in 1..Len(after) : after[i] = before[perm[i]]
                      /\ \A k \in 1..Len(before) :
                            Cardinality({i \in 1..Len(after) : perm[i] = k}) = 1

\* an image whose two predicted individuals are swapped, its ground truth
\* having an invisible keypoint
C14_Witness ==
    /\ Aligned
    /\ \E n \in 1..Len(poses) :
          /\ ret.matches[n].match = <<2, 1>>
          /\ ImageOf(Values(buffers, dicts[ret.value]), n) # ImageOf(poses, n)
          /\ \E i \in 1..2 : DictGet(ground_truth, poses[n][1])[i][1][3] = 0

(***************************************************************************)
(* The caller's objects after a call (SpecArrays).                         *)
(***************************************************************************)
\* the number of buffers the caller allocated
CallerCount == Len(poses) + Len(ground_truth)

\* the views of the dict with reference d all show buffers allocated by the call
FreshDict(d) ==
    /\ d > GtDict
    /\ \A n \in 1..Len(dicts[d]) : dicts[d][n][2].ref > CallerCount

C15_WitnessAlign ==
    /\ C14_Witness
    /\ Len(buffers) > CallerCount

====
